---- MODULE Spec2Model ----
(***************************************************************************)
(* The popover manager (js/popover.js) and the frame loop (engine.js) of   *)
(* trick-or-treat.                                                         *)
(*                                                                         *)
(* Numbers.  Every quantity the code keeps as a float is kept here as an   *)
(* integer number of thousandths: alpha 1 is 1000, lineWidth 15 is 15000,  *)
(* a pixel offset of 151.5 is 151500.  Times are in milliseconds, so the   *)
(* dt of the model is 1000 times the dt (in seconds) of the code and       *)
(* `speed * dt` of the code is `speed * dt` thousandths here.  Canvas      *)
(* widths and heights, and particle centres, are whole pixels.             *)
(***************************************************************************)
EXTENDS Integers, Sequences, FiniteSets, TLC

VARIABLES
    ctx,          \* PopoverManager: this.ctx (undefined, null or the 2d context of the overlay canvas)
    container,    \* the children of the DOM element #container, in document order
    costumeData,  \* PopoverManager: this.costumeData
    fireworks,    \* PopoverManager: this.fireworks
    lastCall,     \* the last PopoverManager method called, its dt and whether it threw
    clock,        \* what Date.now() returns, in ms
    pc,           \* Engine: the statement of init, main, update or render that runs next
    lastTime,     \* Engine: lastTime
    now,          \* Engine: main's local variable now
    main_dt,      \* Engine: main's local variable dt, in ms
    player,       \* whether the global `player` is set
    rafPending,   \* the number of main callbacks requested with requestAnimationFrame and not yet run
    frames,       \* the number of times main has been entered, counted up to MaxFrames
    frameLog,     \* the calls made so far by the running invocation of init or main, in order
    timing        \* history: the clock when init set lastTime, and the sum of the dt of the frames since, in ms

pvars == <<ctx, container, costumeData, fireworks, lastCall>>

evars == <<pc, lastTime, now, main_dt, player, rafPending, frames, frameLog, timing>>

vars == <<ctx, container, costumeData, fireworks, lastCall, clock,
          lastTime, now, main_dt, player, rafPending, frames, frameLog, timing, pc>>

-----------------------------------------------------------------------------
(* Bounds of the model *)

\* at most this many children of #container (the game board included)
MaxCanvases == 3

\* Date.now() advances in ticks of 100 ms, at most MaxTicks times
MaxTicks == 4

\* main's invocations are counted up to this number
MaxFrames == 3

-----------------------------------------------------------------------------
(* Values *)

\* the Engine's board canvas: 101 * numCols by 101 * numRows
BoardWidth == 505

BoardHeight == 606

\* a canvas element as document.createElement('canvas') returns it
DefaultCanvasWidth == 300

DefaultCanvasHeight == 150

CtxUndefined == [ref |-> "undefined", uid |-> 0, id |-> "", width |-> 0, height |-> 0]

CtxNull == [ref |-> "null", uid |-> 0, id |-> "", width |-> 0, height |-> 0]

OverlayIds == {"game-start-popover", "costume-popover", "game-end-popover"}

COSTUME_TYPE == [dwarf |-> "dwarf", laserman |-> "laserman", ghost |-> "ghost"]

colors ==
    << "rgba(255, 255, 255, %alpha%)",
       "rgba(255, 184, 6, %alpha%)",
       "rgba(171, 252, 170, %alpha%)" >>

\* the integers randomIntegerInRange(lo, hi) can return
RandomIntegerInRange(lo, hi) == lo .. hi

\* the outcomes of the random source that are explored
RandCoarse == [x |-> {1280}, y |-> {700}, c |-> {0}]

RandFine == [x |-> {0, 1280}, y |-> {700}, c |-> {0, 1, 2}]

\* the dt arguments (ms) that are explored
DtCoarse == {0, 2000}

DtFine == {0, 100, 250, 2000}

\* 1000 * Math.sin(k / 8), k = 0 .. 40
SinTable ==
    << 0, 125, 247, 366, 479, 585, 682, 768, 841, 902, 949, 981, 997, 999,
       984, 954, 909, 850, 778, 694, 598, 494, 382, 263, 141, 17, -108, -231,
       -351, -465, -572, -669, -757, -832, -895, -944, -978, -996, -999,
       -987, -959 >>

\* 1000 * Math.sin(t / 800) for t a multiple of 100 ms
MathSin800(t) == SinTable[(t \div 100) + 1]

\* the JavaScript value undefined; an object is the record of its own properties
Undefined == [undefined |-> TRUE]

\* a time variable of the Engine that holds no time yet: lastTime before init
\* assigns it (var lastTime;), and main's locals now and dt before main is
\* entered; written as a time that Date.now() never returns
Unassigned == 0 - 1

EmptyObject == <<>>

-----------------------------------------------------------------------------
(* PopoverManager: helpers *)

Call(op, dt, threw) == [op |-> op, dt |-> dt, threw |-> threw]

\* a node id no child of #container has
NewUid ==
    1 + CHOOSE m \in {container[i].uid : i \in 1 .. Len(container)} :
            \A i \in 1 .. Len(container) : container[i].uid <= m

\* _addCanvasToDOMWithID: this.ctx once it has returned
AddCanvasCtx(id) ==
    [ref |-> "object", uid |-> NewUid, id |-> id,
     width |-> IF id = "costume-popover" THEN BoardWidth ELSE DefaultCanvasWidth,
     height |-> IF id = "costume-popover" THEN BoardHeight ELSE DefaultCanvasHeight]

\* _addCanvasToDOMWithID: the children of #container once it has returned
AddCanvasContainer(id) == Append(container, [uid |-> NewUid, id |-> id])

\* container.removeChild(canvas)
RemoveChild(children, uid) == SelectSeq(children, LAMBDA c : c.uid # uid)

_isDisplayingCostumePopover == ctx.ref # "null" /\ ctx.id = "costume-popover"

\* the end-of-game test looking at this.fireworks instead of the id of the canvas
_isDisplayingEndOfGamePopover_byFireworks ==
    ctx.ref # "null" /\ DOMAIN fireworks = {"particle1", "particle2", "particle3"}

_isDisplayingEndOfGamePopover == ctx.ref # "null" /\ ctx.id = "game-end-popover"

\* the switch without its break statements: every case falls through to the last
CostumeContent_fallsThrough(costume) ==
    CASE costume \in {COSTUME_TYPE.dwarf, COSTUME_TYPE.laserman, COSTUME_TYPE.ghost} ->
           [costume |-> "GHOST", spriteURL |-> "images/ghost-costume.png",
            caption |-> "100% Believeable."]

\* the switch of _setCostumeDataForCostume
CostumeContent(costume) ==
    CASE costume = COSTUME_TYPE.dwarf ->
           [costume |-> "DWARF", spriteURL |-> "images/dwarf-red.png",
            caption |-> "Rocks were meant for smashing."]
      [] costume = COSTUME_TYPE.laserman ->
           [costume |-> "LASERMAN", spriteURL |-> "images/glasses-blue.png",
            caption |-> "Lasers shmasers."]
      [] costume = COSTUME_TYPE.ghost ->
           [costume |-> "GHOST", spriteURL |-> "images/ghost-costume.png",
            caption |-> "100% Believeable."]

\* this.costumeData once _setCostumeDataForCostume has returned, canvas being this.ctx.canvas
_setCostumeDataForCostume(costume, canvas) ==
    LET content == CostumeContent(costume)
    IN  [costume |-> content.costume,
         spriteURL |-> content.spriteURL,
         caption |-> content.caption,
         update |-> "function",
         imageLocation |-> [x |-> 500 * canvas.width - 51000, y |-> 60000],
         originalImageYLocation |-> 60000]

\* costumeData.update() adding the offset to the y of the frame before
CostumeUpdate_integrates(data, t) ==
    LET maxDY == 8
        dy == maxDY * MathSin800(t)
    IN  [data EXCEPT !.imageLocation.y = @ + dy]

\* costumeData.update(): the closure of _setCostumeDataForCostume, t being Date.now()
CostumeUpdate(data, t) ==
    LET maxDY == 8
        dy == maxDY * MathSin800(t)
    IN  [data EXCEPT !.imageLocation.y = data.originalImageYLocation + dy]

\* this.fireworks once _setFireworks has returned
_setFireworks ==
    [particle1 |-> [radius |-> 50000, lineWidth |-> 0, alpha |-> 1000,
                    center |-> [x |-> 0, y |-> 0], color |-> "rgba(255, 184, 6, %alpha%)"],
     particle2 |-> [radius |-> 0, lineWidth |-> 10000, alpha |-> 1000,
                    center |-> [x |-> 0, y |-> 0], color |-> "rgba(255, 184, 6, %alpha%)"],
     particle3 |-> [radius |-> 0, lineWidth |-> 20000, alpha |-> 1000,
                    center |-> [x |-> 0, y |-> 0], color |-> "rgba(255, 184, 6, %alpha%)"]]

\* the restart drawing the y of the new location from the width of the canvas
Relocated_yFromWidth(p, canvas, rand) ==
    { [p EXCEPT !.center = [x |-> cx, y |-> cy], !.color = colors[c + 1]] :
        cx \in {n \in rand.x : n \in RandomIntegerInRange(0, canvas.width)},
        cy \in {n \in rand.x \cup rand.y : n \in RandomIntegerInRange(0, canvas.width)},
        c \in {n \in rand.c : n \in RandomIntegerInRange(0, Len(colors) - 1)} }

\* the new random location and colour of a restarted particle: every outcome of
\* the three randomIntegerInRange calls that `rand` explores
Relocated(p, canvas, rand) ==
    { [p EXCEPT !.center = [x |-> cx, y |-> cy], !.color = colors[c + 1]] :
        cx \in {n \in rand.x : n \in RandomIntegerInRange(0, canvas.width)},
        cy \in {n \in rand.y : n \in RandomIntegerInRange(0, canvas.height)},
        c \in {n \in rand.c : n \in RandomIntegerInRange(0, Len(colors) - 1)} }

\* particle1.update with the restart carrying the overshoot of alpha into the new cycle
Particle1Update_carriesOvershoot(p, dt, canvas, rand) ==
    LET speed == 4
        ds == speed * dt
        q == [p EXCEPT !.lineWidth = @ + 100 * ds, !.alpha = @ - ds]
    IN  IF q.alpha < 0
        THEN Relocated([q EXCEPT !.alpha = @ + 1000, !.lineWidth = 0], canvas, rand)
        ELSE {q}

\* fireworks.particle1.update(dt): the particles it can leave
Particle1Update(p, dt, canvas, rand) ==
    LET speed == 4
        ds == speed * dt
        q == [p EXCEPT !.lineWidth = @ + 100 * ds, !.alpha = @ - ds]
    IN  IF q.alpha < 0
        THEN Relocated([q EXCEPT !.alpha = 1000, !.lineWidth = 0], canvas, rand)
        ELSE {q}

\* particle2.update restarting as soon as alpha is used up (<= 0 for < 0)
Particle2Update_restartsAtZero(p, dt, canvas, rand) ==
    LET speed == 5
        ds == speed * dt
        q == [p EXCEPT !.alpha = @ - ds, !.radius = @ + 18 * ds]
    IN  IF q.alpha <= 0
        THEN Relocated([q EXCEPT !.alpha = 1000, !.radius = 0], canvas, rand)
        ELSE {q}

\* fireworks.particle2.update(dt)
Particle2Update(p, dt, canvas, rand) ==
    LET speed == 5
        ds == speed * dt
        q == [p EXCEPT !.alpha = @ - ds, !.radius = @ + 18 * ds]
    IN  IF q.alpha < 0
        THEN Relocated([q EXCEPT !.alpha = 1000, !.radius = 0], canvas, rand)
        ELSE {q}

\* particle3.update restarting from the line width the particle is created with
Particle3Update_restartsAt20(p, dt, canvas, rand) ==
    LET speed == 20
        ds == speed * dt
        q == [p EXCEPT !.lineWidth = @ - 3 * ds, !.radius = @ + 10 * ds]
    IN  IF q.lineWidth < 0
        THEN Relocated([q EXCEPT !.lineWidth = 20000, !.radius = 0], canvas, rand)
        ELSE {q}

\* particle3.update testing the line width it finds, before it shrinks it
Particle3Update_testsFirst(p, dt, canvas, rand) ==
    LET speed == 20
        ds == speed * dt
        q == [p EXCEPT !.lineWidth = @ - 3 * ds, !.radius = @ + 10 * ds]
    IN  IF p.lineWidth < 0
        THEN Relocated([q EXCEPT !.lineWidth = 15000, !.radius = 0], canvas, rand)
        ELSE {q}

\* fireworks.particle3.update(dt)
Particle3Update(p, dt, canvas, rand) ==
    LET speed == 20
        ds == speed * dt
        q == [p EXCEPT !.lineWidth = @ - 3 * ds, !.radius = @ + 10 * ds]
    IN  IF q.lineWidth < 0
        THEN Relocated([q EXCEPT !.lineWidth = 15000, !.radius = 0], canvas, rand)
        ELSE {q}

\* _updateFireworks updating particle1 alone
_updateFireworks_particle1Only(fw, dt, canvas, rand) ==
    { [fw EXCEPT !.particle1 = q1] : q1 \in Particle1Update(fw.particle1, dt, canvas, rand) }

\* _updateFireworks(dt): the values of this.fireworks it can leave
_updateFireworks(fw, dt, canvas, rand) ==
    { [particle1 |-> q1, particle2 |-> q2, particle3 |-> q3] :
        q1 \in Particle1Update(fw.particle1, dt, canvas, rand),
        q2 \in Particle2Update(fw.particle2, dt, canvas, rand),
        q3 \in Particle3Update(fw.particle3, dt, canvas, rand) }

-----------------------------------------------------------------------------
(* PopoverManager: the public methods.  Each is the whole method; a method   *)
(* that throws leaves the state as it was where the exception was raised.    *)

showGameStartPopover ==
    /\ Len(container) < MaxCanvases
    /\ container' = AddCanvasContainer("game-start-popover")
    /\ ctx' = [AddCanvasCtx("game-start-popover") EXCEPT !.width = 720, !.height = 600]
    /\ costumeData' = EmptyObject
    /\ lastCall' = Call("showGameStartPopover", 0, FALSE)
    /\ UNCHANGED fireworks
\* presentGameFinishPopover keeping the particles of an earlier end-of-game popover
presentGameFinishPopover_keepsFireworks ==
    /\ Len(container) < MaxCanvases
    /\ container' = AddCanvasContainer("game-end-popover")
    /\ fireworks' = IF fireworks = Undefined THEN _setFireworks ELSE fireworks
    /\ ctx' = [AddCanvasCtx("game-end-popover") EXCEPT !.width = 1280, !.height = 700]
    /\ lastCall' = Call("presentGameFinishPopover", 0, FALSE)
    /\ UNCHANGED costumeData


presentGameFinishPopover ==
    /\ Len(container) < MaxCanvases
    /\ container' = AddCanvasContainer("game-end-popover")
    /\ fireworks' = _setFireworks
       \* _renderEndOfGamePopover sets the dimensions of the canvas
    /\ ctx' = [AddCanvasCtx("game-end-popover") EXCEPT !.width = 1280, !.height = 700]
    /\ lastCall' = Call("presentGameFinishPopover", 0, FALSE)
    /\ UNCHANGED costumeData

PresentCostumePopover(op, costume) ==
    /\ Len(container) < MaxCanvases
    /\ container' = AddCanvasContainer("costume-popover")
    /\ ctx' = AddCanvasCtx("costume-popover")
    /\ costumeData' = _setCostumeDataForCostume(costume, AddCanvasCtx("costume-popover"))
    /\ lastCall' = Call(op, 0, FALSE)
    /\ UNCHANGED fireworks

presentLaserManPopover == PresentCostumePopover("presentLaserManPopover", COSTUME_TYPE.laserman)

presentDwarfPopover == PresentCostumePopover("presentDwarfPopover", COSTUME_TYPE.dwarf)

presentGhostPopover == PresentCostumePopover("presentGhostPopover", COSTUME_TYPE.ghost)

removePopover ==
    CASE ctx.ref = "null" ->
           /\ lastCall' = Call("removePopover", 0, FALSE)
           /\ UNCHANGED <<ctx, container, costumeData, fireworks>>
      [] ctx.ref = "undefined" ->
           \* this.ctx.canvas: TypeError, undefined has no properties
           /\ lastCall' = Call("removePopover", 0, TRUE)
           /\ UNCHANGED <<ctx, container, costumeData, fireworks>>
      [] ctx.ref = "object" ->
           /\ container' = RemoveChild(container, ctx.uid)
           /\ ctx' = CtxNull
           /\ lastCall' = Call("removePopover", 0, FALSE)
           /\ UNCHANGED <<costumeData, fireworks>>

update(dt, rand) ==
    CASE ctx.ref = "undefined" ->
           \* _isDisplayingCostumePopover: this.ctx.canvas throws a TypeError
           /\ lastCall' = Call("update", dt, TRUE)
           /\ UNCHANGED <<ctx, container, costumeData, fireworks>>
      [] ctx.ref # "undefined" /\ _isDisplayingCostumePopover ->
           /\ costumeData' = CostumeUpdate(costumeData, clock)
           /\ lastCall' = Call("update", dt, FALSE)
           /\ UNCHANGED <<ctx, container, fireworks>>
      [] ctx.ref # "undefined" /\ ~_isDisplayingCostumePopover /\ _isDisplayingEndOfGamePopover ->
           /\ fireworks' \in _updateFireworks(fireworks, dt, ctx, rand)
           /\ lastCall' = Call("update", dt, FALSE)
           /\ UNCHANGED <<ctx, container, costumeData>>
      [] OTHER ->
           /\ lastCall' = Call("update", dt, FALSE)
           /\ UNCHANGED <<ctx, container, costumeData, fireworks>>

render ==
    CASE ctx.ref = "undefined" ->
           /\ lastCall' = Call("render", 0, TRUE)
           /\ UNCHANGED <<ctx, container, costumeData, fireworks>>
      [] ctx.ref # "undefined" /\ _isDisplayingCostumePopover ->
           \* _renderCostumePopover
           /\ costumeData' = [costumeData EXCEPT !.originalImageYLocation = 250 * ctx.height]
           /\ lastCall' = Call("render", 0, FALSE)
           /\ UNCHANGED <<ctx, container, fireworks>>
      [] ctx.ref # "undefined" /\ ~_isDisplayingCostumePopover /\ _isDisplayingEndOfGamePopover ->
           \* _renderEndOfGamePopover
           /\ ctx' = [ctx EXCEPT !.width = 1280, !.height = 700]
           /\ lastCall' = Call("render", 0, FALSE)
           /\ UNCHANGED <<container, costumeData, fireworks>>
      [] OTHER ->
           /\ lastCall' = Call("render", 0, FALSE)
           /\ UNCHANGED <<ctx, container, costumeData, fireworks>>

-----------------------------------------------------------------------------
(* The environment *)

\* time passes, between two invocations and while update and render run:
\* Date.now() returns a later value
Tick ==
    /\ pc \in {"loaded", "idle", "main: lastTime"}
    /\ clock + 100 <= 100 * MaxTicks
    /\ clock' = clock + 100
    /\ UNCHANGED <<pvars, evars>>

\* a method of window.PopoverManager called by the rest of the game while no
\* invocation of init or main is running
External(method) ==
    /\ pc \in {"loaded", "idle"}
    /\ method
    /\ UNCHANGED <<clock, evars>>

-----------------------------------------------------------------------------
(* Engine.  pc names the statement that runs next; each action below is one  *)
(* statement of init, main, update, updateEntities, render or               *)
(* renderEntities.  A call of a collaborator (BoardManager, AnimationQueue, *)
(* the enemies, the player) is recorded in frameLog.                        *)

\* a statement whose only effect here is the call it makes
Statement(at, call, next) ==
    /\ pc = at
    /\ frameLog' = Append(frameLog, call)
    /\ pc' = next
    /\ UNCHANGED <<lastTime, now, main_dt, player, rafPending, frames, timing>>
    /\ UNCHANGED <<pvars, clock>>

\* Resources.onReady(init): the images are loaded and init is called
onReady ==
    /\ pc = "loaded"
    /\ pc' = "init: reset"
    /\ UNCHANGED <<lastTime, now, main_dt, player, rafPending, frames, frameLog, timing>>
    /\ UNCHANGED <<pvars, clock>>

init_reset == Statement("init: reset", "reset", "init: lastTime")

init_lastTime ==
    /\ pc = "init: lastTime"
    /\ pc' = "init: currentLevel"
    /\ lastTime' = clock
    /\ timing' = [since |-> clock, dtSum |-> 0]
    /\ frameLog' = Append(frameLog, "lastTime = Date.now()")
    /\ UNCHANGED <<now, main_dt, player, rafPending, frames>>
    /\ UNCHANGED <<pvars, clock>>

init_currentLevel ==
    Statement("init: currentLevel", "BoardManager.currentLevel = 1", "init: showGameStartPopover")

\* init with line 82 in the place of line 81: the end-of-game popover is shown
init_presentGameFinishPopover ==
    /\ pc = "init: showGameStartPopover"
    /\ presentGameFinishPopover
    /\ frameLog' = Append(frameLog, "PopoverManager.showGameStartPopover")
    /\ pc' = "init: main"
    /\ UNCHANGED <<lastTime, now, main_dt, player, rafPending, frames, timing, clock>>

init_showGameStartPopover ==
    /\ pc = "init: showGameStartPopover"
    /\ showGameStartPopover
    /\ frameLog' = Append(frameLog, "PopoverManager.showGameStartPopover")
    /\ pc' = "init: main"
    /\ UNCHANGED <<lastTime, now, main_dt, player, rafPending, frames, timing, clock>>

\* main(); called from init
init_main ==
    /\ pc = "init: main"
    /\ frames' = IF frames < MaxFrames THEN frames + 1 ELSE frames
    /\ frameLog' = <<>>
    /\ pc' = "main: now"
    /\ UNCHANGED <<lastTime, now, main_dt, player, rafPending, timing>>
    /\ UNCHANGED <<pvars, clock>>

\* main setting lastTime as soon as it has computed dt, before update and render
main_now_setsLastTime ==
    /\ pc = "main: now"
    /\ pc' = "main: update"
    /\ now' = clock
    /\ main_dt' = clock - lastTime
    /\ lastTime' = clock
    /\ timing' = [timing EXCEPT !.dtSum = @ + (clock - lastTime)]
    /\ frameLog' = Append(frameLog, "now = Date.now()")
    /\ UNCHANGED <<player, rafPending, frames>>
    /\ UNCHANGED <<pvars, clock>>

\* var now = Date.now(), dt = (now - lastTime) / 1000.0;
main_now ==
    /\ pc = "main: now"
    /\ pc' = "main: update"
    /\ now' = clock
    /\ main_dt' = clock - lastTime
    /\ timing' = [timing EXCEPT !.dtSum = @ + (clock - lastTime)]
    /\ frameLog' = Append(frameLog, "now = Date.now()")
    /\ UNCHANGED <<lastTime, player, rafPending, frames>>
    /\ UNCHANGED <<pvars, clock>>

main_update == Statement("main: update", "update", "update: updateCanvasDimensions")

updateCanvasDimensions ==
    Statement("update: updateCanvasDimensions", "updateCanvasDimensions", "update: updateEntities")

updateEntities_enemies ==
    Statement("update: updateEntities", "enemy.update", "updateEntities: player")

\* updateEntities returning when there is no player, the lasers left out
updateEntities_player_returns ==
    Statement("updateEntities: player",
              IF player THEN "player.update" ELSE "console.log",
              IF player THEN "updateEntities: lasers" ELSE "update: updateCollectibles")

updateEntities_player ==
    Statement("updateEntities: player",
              IF player THEN "player.update" ELSE "console.log",
              "updateEntities: lasers")

updateEntities_lasers ==
    Statement("updateEntities: lasers", "laser.update", "update: updateCollectibles")

updateCollectibles ==
    Statement("update: updateCollectibles", "BoardManager.updateCostumes", "update: updateAnimations")

\* update going from the animations to the collision check, the popover left out
updateAnimations_thenCollisions ==
    Statement("update: updateAnimations", "AnimationQueue.update", "update: checkCollisions")

updateAnimations ==
    Statement("update: updateAnimations", "AnimationQueue.update", "update: updatePopover")

\* window.PopoverManager.update(dt); an exception it throws ends main
updatePopover ==
    /\ pc = "update: updatePopover"
    /\ update(main_dt, RandCoarse)
    /\ frameLog' = Append(frameLog, "PopoverManager.update")
    /\ pc' = IF lastCall'.threw THEN "idle" ELSE "update: checkCollisions"
    /\ UNCHANGED <<lastTime, now, main_dt, player, rafPending, frames, timing, clock>>

checkCollisions ==
    Statement("update: checkCollisions", "BoardManager.checkEnemyCollisions", "main: render")

main_render == Statement("main: render", "render", "render: renderBoard")

renderBoard == Statement("render: renderBoard", "BoardManager.renderBoard", "render: renderAnimations")

\* render drawing the popover right after the animations, under the entities
renderAnimations_thenPopover ==
    Statement("render: renderAnimations", "AnimationQueue.render", "render: renderPopover")

renderAnimations ==
    Statement("render: renderAnimations", "AnimationQueue.render", "render: renderEntities")

renderEntities_enemies ==
    Statement("render: renderEntities", "enemy.render", "renderEntities: player")

renderEntities_player ==
    Statement("renderEntities: player",
              IF player THEN "player.render" ELSE "console.log",
              "render: renderPopover")

\* PopoverManager.render(); an exception it throws ends main
renderPopover ==
    /\ pc = "render: renderPopover"
    /\ render
    /\ frameLog' = Append(frameLog, "PopoverManager.render")
    /\ pc' = IF lastCall'.threw THEN "idle" ELSE "main: lastTime"
    /\ UNCHANGED <<lastTime, now, main_dt, player, rafPending, frames, timing, clock>>

\* main reading the clock a second time at its end instead of reusing now
main_lastTime_readsClock ==
    /\ pc = "main: lastTime"
    /\ pc' = "main: requestAnimationFrame"
    /\ lastTime' = clock
    /\ frameLog' = Append(frameLog, "lastTime = now")
    /\ UNCHANGED <<now, main_dt, player, rafPending, frames, timing>>
    /\ UNCHANGED <<pvars, clock>>

main_lastTime ==
    /\ pc = "main: lastTime"
    /\ pc' = "main: requestAnimationFrame"
    /\ lastTime' = now
    /\ frameLog' = Append(frameLog, "lastTime = now")
    /\ UNCHANGED <<now, main_dt, player, rafPending, frames, timing>>
    /\ UNCHANGED <<pvars, clock>>

\* main returning without a call of requestAnimationFrame
main_requestAnimationFrame_returns ==
    /\ pc = "main: requestAnimationFrame"
    /\ frameLog' = Append(frameLog, "return")
    /\ pc' = "idle"
    /\ UNCHANGED <<lastTime, now, main_dt, player, rafPending, frames, timing>>
    /\ UNCHANGED <<pvars, clock>>

\* win.requestAnimationFrame(main); main returns, and so does init on the first frame
main_requestAnimationFrame ==
    /\ pc = "main: requestAnimationFrame"
    /\ rafPending' = rafPending + 1
    /\ frameLog' = Append(frameLog, "requestAnimationFrame")
    /\ pc' = "idle"
    /\ UNCHANGED <<lastTime, now, main_dt, player, frames, timing>>
    /\ UNCHANGED <<pvars, clock>>

\* the browser runs a requested callback: main is entered
animationFrame ==
    /\ pc = "idle"
    /\ rafPending > 0
    /\ rafPending' = rafPending - 1
    /\ frames' = IF frames < MaxFrames THEN frames + 1 ELSE frames
    /\ frameLog' = <<>>
    /\ pc' = "main: now"
    /\ UNCHANGED <<lastTime, now, main_dt, player, timing>>
    /\ UNCHANGED <<pvars, clock>>

\* the rest of the game sets the global player
playerInitialized ==
    /\ pc \in {"loaded", "idle"}
    /\ ~player
    /\ player' = TRUE
    /\ UNCHANGED <<pc, lastTime, now, main_dt, rafPending, frames, frameLog, timing>>
    /\ UNCHANGED <<pvars, clock>>

-----------------------------------------------------------------------------
(* The state once the scripts have run: new PopoverManager(), and the       *)
(* Engine with its board canvas in #container and init waiting for          *)
(* Resources.onReady                                                        *)

Init ==
    /\ ctx = CtxUndefined
    /\ container = << [uid |-> 0, id |-> "game-board"] >>
    /\ costumeData = Undefined
    /\ fireworks = Undefined
    /\ lastCall = Call("new", 0, FALSE)
    /\ clock = 0
    /\ pc = "loaded"
    /\ lastTime = Unassigned
    /\ now = Unassigned
    /\ main_dt = Unassigned
    /\ player = FALSE
    /\ rafPending = 0
    /\ frames = 0
    /\ frameLog = <<>>
    /\ timing = Undefined

-----------------------------------------------------------------------------
(* The popover manager under any sequence of calls of its public methods *)

UpdateCoarse == \E d \in DtCoarse : update(d, RandCoarse)

Next ==
    \/ External(showGameStartPopover)
    \/ External(presentLaserManPopover)
    \/ External(presentDwarfPopover)
    \/ External(presentGhostPopover)
    \/ External(presentGameFinishPopover)
    \/ External(removePopover)
    \/ External(UpdateCoarse)
    \/ External(render)
    \/ Tick

Spec == Init /\ [][Next]_vars

-----------------------------------------------------------------------------
(* The game: init once the resources are ready, then one frame after the    *)
(* other, the rest of the game calling the popover manager between frames   *)

NextEngine ==
    \/ onReady
    \/ init_reset
    \/ init_lastTime
    \/ init_currentLevel
    \/ init_showGameStartPopover
    \/ init_main
    \/ main_now
    \/ main_update
    \/ updateCanvasDimensions
    \/ updateEntities_enemies
    \/ updateEntities_player
    \/ updateEntities_lasers
    \/ updateCollectibles
    \/ updateAnimations
    \/ updatePopover
    \/ checkCollisions
    \/ main_render
    \/ renderBoard
    \/ renderAnimations
    \/ renderEntities_enemies
    \/ renderEntities_player
    \/ renderPopover
    \/ main_lastTime
    \/ main_requestAnimationFrame
    \/ animationFrame
    \/ playerInitialized
    \/ (pc # "loaded" /\ Tick)
    \/ (pc = "idle" /\ External(removePopover))
    \/ (pc = "idle" /\ External(presentGhostPopover))
    \/ (pc = "idle" /\ External(presentGameFinishPopover))

SpecEngine == Init /\ [][NextEngine]_vars

-----------------------------------------------------------------------------
(* The end-of-game popover while frames keep arriving: update is called     *)
(* again and again with a dt of at least 0.1 s                              *)

UpdateLive == \E d \in DtFine : update(d, RandCoarse)

UpdatePositive == \E d \in DtFine \ {0} : update(d, RandCoarse)

NextFireworksLive ==
    \/ External(presentGameFinishPopover)
    \/ External(removePopover)
    \/ External(UpdateLive)
    \/ External(render)

SpecFireworksLive == Init /\ [][NextFireworksLive]_vars

\* main calls update(dt) in every frame, and the frames keep arriving
SpecFireworksFair == SpecFireworksLive /\ WF_vars(External(UpdatePositive))

-----------------------------------------------------------------------------
(* The frame loop and its clock: init and main as above, time passing       *)
(* before init, between the frames and within them, and the game removing   *)
(* the popover between two frames                                           *)

\* a statement of init, main, update or render
EngineStep ==
    \/ init_reset
    \/ init_lastTime
    \/ init_currentLevel
    \/ init_showGameStartPopover
    \/ init_main
    \/ main_now
    \/ main_update
    \/ updateCanvasDimensions
    \/ updateEntities_enemies
    \/ updateEntities_player
    \/ updateEntities_lasers
    \/ updateCollectibles
    \/ updateAnimations
    \/ updatePopover
    \/ checkCollisions
    \/ main_render
    \/ renderBoard
    \/ renderAnimations
    \/ renderEntities_enemies
    \/ renderEntities_player
    \/ renderPopover
    \/ main_lastTime
    \/ main_requestAnimationFrame

NextLoop ==
    \/ onReady
    \/ EngineStep
    \/ animationFrame
    \/ playerInitialized
    \/ Tick
    \/ (pc = "idle" /\ External(removePopover))

SpecLoop == Init /\ [][NextLoop]_vars

\* JavaScript runs an invocation of init or main to its end, and the browser
\* runs a callback requested with requestAnimationFrame
SpecLoopFair == SpecLoop /\ WF_pc(EngineStep) /\ WF_pc(animationFrame)

-----------------------------------------------------------------------------
(* The end-of-game popover and its fireworks, under finer inputs *)

UpdateFine == \E d \in DtFine : update(d, RandFine)

NextFireworks ==
    \/ External(presentGameFinishPopover)
    \/ External(removePopover)
    \/ External(UpdateFine)
    \/ External(render)

SpecFireworks == Init /\ [][NextFireworks]_vars

-----------------------------------------------------------------------------
(* The costume popovers, while time passes *)

NextCostume ==
    \/ External(presentLaserManPopover)
    \/ External(presentDwarfPopover)
    \/ External(presentGhostPopover)
    \/ External(removePopover)
    \/ External(UpdateFine)
    \/ External(render)
    \/ Tick

SpecCostume == Init /\ [][NextCostume]_vars

-----------------------------------------------------------------------------
(* Vocabulary of the properties *)

ShowOps ==
    {"showGameStartPopover", "presentLaserManPopover", "presentDwarfPopover",
     "presentGhostPopover", "presentGameFinishPopover"}

\* the overlay canvases attached to #container, in document order
Overlays == SelectSeq(container, LAMBDA c : c.id \in OverlayIds)

\* a popover is active: this.ctx is the context of an overlay canvas
PopoverActive == ctx.ref = "object"

IsPrefix(s, t) == Len(s) <= Len(t) /\ \A i \in 1 .. Len(s) : s[i] = t[i]

\* the entries of log that are in the set calls, in order
Only(log, calls) == SelectSeq(log, LAMBDA c : c \in calls)

MainOrder ==
    << "now = Date.now()", "update", "render", "lastTime = now", "requestAnimationFrame" >>

\* the calls update(dt) makes, the player's being made only when there is a player
UpdateOrder(withPlayer) ==
    << "updateCanvasDimensions", "enemy.update" >>
    \o (IF withPlayer THEN << "player.update" >> ELSE << >>)
    \o << "laser.update", "BoardManager.updateCostumes", "AnimationQueue.update",
          "PopoverManager.update", "BoardManager.checkEnemyCollisions" >>

\* the calls render() makes
RenderOrder(withPlayer) ==
    << "BoardManager.renderBoard", "AnimationQueue.render", "enemy.render" >>
    \o (IF withPlayer THEN << "player.render" >> ELSE << >>)
    \o << "PopoverManager.render" >>

Range(s) == {s[i] : i \in 1 .. Len(s)}

UpdateCalls == Range(UpdateOrder(TRUE))

RenderCalls == Range(RenderOrder(TRUE))

\* main is running, or has run, and its calls are in frameLog
InFrame == frames > 0 /\ pc \notin {"loaded", "init: reset", "init: lastTime",
                                    "init: currentLevel", "init: showGameStartPopover",
                                    "init: main"}

\* the last call of log, "" when there is none
LastOf(log) == IF log = <<>> THEN "" ELSE log[Len(log)]

\* main has returned after a complete pass
FrameDone == InFrame /\ pc = "idle" /\ LastOf(frameLog) = "requestAnimationFrame"

-----------------------------------------------------------------------------
(* C1: after any show call, and so after show(A); show(B), #container holds  *)
(* exactly one overlay canvas, the one the call created (the canvas of       *)
(* this.ctx).  The code appends B's canvas and leaves A's attached.          *)
C1_ShowLeavesOneOverlay ==
    lastCall.op \in ShowOps =>
        Overlays = << [uid |-> ctx.uid, id |-> ctx.id] >>

(* C2: the number of overlay canvases attached to #container is 1 when a    *)
(* popover is active and 0 when none is.                                    *)
C2_SurfaceBracketsPopover ==
    Len(Overlays) = IF PopoverActive THEN 1 ELSE 0

(* C3: a removePopover() call made when no popover is active (after an      *)
(* earlier removePopover, or on a manager that never showed one) raises no  *)
(* error and changes nothing of the manager's state.                        *)
C3_RemoveWhenAbsentIsNoOp ==
    [][(~PopoverActive /\ lastCall'.op = "removePopover" /\ UNCHANGED <<clock, evars>>)
          => (~lastCall'.threw /\ UNCHANGED <<ctx, container, costumeData, fireworks>>)]_vars

(* C4: no update(dt) and no render() call raises an error, in any reachable *)
(* state of the manager, the one before any popover was shown included.     *)
C4_UpdateRenderNeverThrow ==
    lastCall.op \in {"update", "render"} => ~lastCall.threw

(* C5: within every invocation of main the statements run in the order      *)
(* now, update, render, lastTime = now, requestAnimationFrame; dt is now    *)
(* minus the lastTime of the frame before; no call of update follows a call *)
(* of render; and lastTime changes only when update and render have both    *)
(* returned (the last call made is render's last).                          *)
C5_MainOrder ==
    /\ [](InFrame =>
            /\ IsPrefix(Only(frameLog, Range(MainOrder)), MainOrder)
            /\ ("now = Date.now()" \in Range(frameLog) /\ "lastTime = now" \notin Range(frameLog))
                   => main_dt = now - lastTime
            /\ \A i, j \in 1 .. Len(frameLog) :
                   (frameLog[i] \in RenderCalls \cup {"render"}
                        /\ frameLog[j] \in UpdateCalls \cup {"update"}) => j < i
            /\ (FrameDone => Only(frameLog, Range(MainOrder)) = MainOrder))
    /\ [][(InFrame /\ lastTime' # lastTime) =>
            /\ LastOf(frameLog) = "PopoverManager.render"
            /\ lastTime' = now
            /\ UpdateCalls \ {"player.update"} \subseteq Range(frameLog)]_vars

\* a second invocation of main has returned: lastTime is its now, one callback is pending
C5_Witness ==
    FrameDone /\ frames >= 2 /\ lastTime = now /\ main_dt > 0 /\ rafPending = 1

(* C6: within every update(dt) the calls are made in the order: canvas      *)
(* dimensions, enemies, player (if present), lasers, costumes, animations,  *)
(* popover, collision check; a completed frame has made all of them.        *)
C6_UpdateOrder ==
    InFrame =>
        /\ \E b \in BOOLEAN : IsPrefix(Only(frameLog, UpdateCalls), UpdateOrder(b))
        /\ (FrameDone => \E b \in BOOLEAN : Only(frameLog, UpdateCalls) = UpdateOrder(b))

\* update has returned in a frame with a player
C6_Witness ==
    InFrame /\ pc = "main: render" /\ player
        /\ Only(frameLog, UpdateCalls) = UpdateOrder(TRUE)

(* C7: within every render() the calls are made in the order: board,        *)
(* animations, enemies, player (if present), popover; the popover's render  *)
(* is the last call of render.                                              *)
C7_RenderOrder ==
    InFrame =>
        /\ \E b \in BOOLEAN : IsPrefix(Only(frameLog, RenderCalls), RenderOrder(b))
        /\ (FrameDone => \E b \in BOOLEAN : Only(frameLog, RenderCalls) = RenderOrder(b))

\* render has returned in a frame with a player
C7_Witness ==
    InFrame /\ pc = "main: lastTime" /\ player
        /\ Only(frameLog, RenderCalls) = RenderOrder(TRUE)

(* C8: a frame that runs while there is no player makes every call of a     *)
(* frame but player.update and player.render, and requests the next frame.  *)
C8_PlayerAbsentFrame ==
    /\ (InFrame /\ pc = "idle" /\ "console.log" \in Range(frameLog)) =>
            (FrameDone /\ rafPending = 1)
    /\ (InFrame /\ ~player /\ pc = "main: requestAnimationFrame") =>
        /\ Only(frameLog, UpdateCalls) = UpdateOrder(FALSE)
        /\ Only(frameLog, RenderCalls) = RenderOrder(FALSE)

\* a frame without a player has returned
C8_Witness ==
    FrameDone /\ ~player /\ rafPending = 1
        /\ Len(Only(frameLog, {"console.log"})) = 2
        /\ Only(frameLog, UpdateCalls) = UpdateOrder(FALSE)

(* C9: init calls reset, sets lastTime, shows the game-start popover and    *)
(* then calls main, in this order; during the first invocation of main the  *)
(* game-start popover is the active popover.                                *)
C9_InitOrder ==
    /\ (pc = "init: main" =>
            /\ Only(frameLog, {"reset", "lastTime = Date.now()",
                               "PopoverManager.showGameStartPopover"})
                 = << "reset", "lastTime = Date.now()", "PopoverManager.showGameStartPopover" >>
            /\ lastTime = clock)
    /\ ((frames = 1 /\ InFrame /\ pc # "idle") =>
            (PopoverActive /\ ctx.id = "game-start-popover"))

\* the first render of the loop reaches the popover
C9_Witness ==
    frames = 1 /\ pc = "render: renderPopover" /\ ctx.id = "game-start-popover"
        /\ Len(Overlays) = 1

(* C10: an update(dt) of the end-of-game popover whose decrement takes the  *)
(* alpha of particle 1 (particle 2) below 0 leaves that alpha exactly 1 and *)
(* lineWidth (radius) exactly 0, whatever dt is.                            *)
C10_AlphaParticlesReset ==
    [][(PopoverActive /\ _isDisplayingEndOfGamePopover /\ lastCall'.op = "update") =>
          /\ (fireworks.particle1.alpha - 4 * lastCall'.dt < 0 =>
                  (fireworks'.particle1.alpha = 1000 /\ fireworks'.particle1.lineWidth = 0))
          /\ (fireworks.particle2.alpha - 5 * lastCall'.dt < 0 =>
                  (fireworks'.particle2.alpha = 1000 /\ fireworks'.particle2.radius = 0))]_vars

\* an update with a dt of 2 s has restarted particles 1 and 2 at a new place
C10_Witness ==
    /\ PopoverActive /\ _isDisplayingEndOfGamePopover
    /\ lastCall = Call("update", 2000, FALSE)
    /\ fireworks.particle1.alpha = 1000 /\ fireworks.particle1.lineWidth = 0
    /\ fireworks.particle2.alpha = 1000 /\ fireworks.particle2.radius = 0
    /\ fireworks.particle1.center.x = 1280 /\ fireworks.particle2.center.x = 1280

(* C11: an update(dt) of the end-of-game popover that takes the lineWidth   *)
(* of particle 3 below 0 leaves it exactly 15 and the radius exactly 0,     *)
(* whatever dt is, in the first cycle (from 20) and in the later ones.      *)
C11_Particle3Reset ==
    [][(PopoverActive /\ _isDisplayingEndOfGamePopover /\ lastCall'.op = "update") =>
          (fireworks.particle3.lineWidth - 60 * lastCall'.dt < 0 =>
               (fireworks'.particle3.lineWidth = 15000 /\ fireworks'.particle3.radius = 0))]_vars

\* an update with a dt of 0.1 s has restarted particle 3 at a new place
C11_Witness ==
    /\ PopoverActive /\ _isDisplayingEndOfGamePopover
    /\ lastCall = Call("update", 100, FALSE)
    /\ fireworks.particle3.lineWidth = 15000 /\ fireworks.particle3.radius = 0
    /\ fireworks.particle3.center.x = 1280

\* a costume popover is the active popover
CostumeActive == PopoverActive /\ _isDisplayingCostumePopover

(* C12: every update of a costume popover leaves imageLocation.y equal to   *)
(* one function of Date.now() and of the base originalImageYLocation alone, *)
(* base + 8 * sin(now / 800): the dt argument, the number of updates made   *)
(* before and the y of the frame before have no part in it.                 *)
C12_OscillationIsFunctionOfTime ==
    [][(CostumeActive /\ lastCall'.op = "update" /\ clock' = clock) =>
          costumeData'.imageLocation.y
              = costumeData.originalImageYLocation + 8 * MathSin800(clock)]_vars

\* a second update, made 0.3 s after the popover was shown and after an earlier update
C12_Witness ==
    /\ CostumeActive
    /\ lastCall = Call("update", 250, FALSE)
    /\ clock = 300
    /\ costumeData.originalImageYLocation = 60000
    /\ costumeData.imageLocation.y = 62928

(* C13: while a costume popover is active the base of the oscillation is 60 *)
(* and imageLocation.y is within [52, 68], whatever updates and renders are *)
(* made.  The code's render sets the base to a quarter of the canvas height.*)
C13_BaseStays60 ==
    CostumeActive =>
        /\ costumeData.originalImageYLocation = 60000
        /\ costumeData.imageLocation.y >= 52000
        /\ costumeData.imageLocation.y <= 68000

(* C14: while no popover is shown (this.ctx is null, after removePopover)   *)
(* or the game-start popover is the active one, update(dt) and render()     *)
(* raise no error and leave the canvas, the container, the costume data and *)
(* the firework particles as they were.                                     *)
C14_UpdateRenderNoOp ==
    [][((ctx.ref = "null" \/ (PopoverActive /\ ctx.id = "game-start-popover"))
            /\ lastCall'.op \in {"update", "render"} /\ UNCHANGED <<clock, evars>>)
          => (~lastCall'.threw /\ UNCHANGED <<ctx, container, costumeData, fireworks>>)]_vars

\* update(2) on a game-start popover shown over an end-of-game popover: the
\* particles are as _setFireworks left them
C14_Witness ==
    /\ PopoverActive /\ ctx.id = "game-start-popover"
    /\ lastCall = Call("update", 2000, FALSE)
    /\ fireworks = _setFireworks
    /\ Len(Overlays) = 2

\* the properties a record has
Fields(r) == DOMAIN r

(* C15: a present*Popover call leaves in costumeData exactly the content of *)
(* the costume asked for, whatever was shown before: DWARF, LASERMAN or     *)
(* GHOST with its own sprite and caption, the image at y = 60 and no other  *)
(* property.                                                                *)
C15_CostumeContent ==
    /\ lastCall.op \in {"presentDwarfPopover", "presentLaserManPopover", "presentGhostPopover"} =>
          /\ Fields(costumeData) = {"costume", "spriteURL", "caption", "update",
                                    "imageLocation", "originalImageYLocation"}
          /\ costumeData.imageLocation.y = 60000
          /\ costumeData.originalImageYLocation = 60000
    /\ lastCall.op = "presentDwarfPopover" =>
          /\ costumeData.costume = "DWARF"
          /\ costumeData.spriteURL = "images/dwarf-red.png"
          /\ costumeData.caption = "Rocks were meant for smashing."
    /\ lastCall.op = "presentLaserManPopover" =>
          /\ costumeData.costume = "LASERMAN"
          /\ costumeData.spriteURL = "images/glasses-blue.png"
          /\ costumeData.caption = "Lasers shmasers."
    /\ lastCall.op = "presentGhostPopover" =>
          /\ costumeData.costume = "GHOST"
          /\ costumeData.spriteURL = "images/ghost-costume.png"
          /\ costumeData.caption = "100% Believeable."

\* the dwarf popover shown over another costume popover
C15_Witness ==
    /\ lastCall.op = "presentDwarfPopover"
    /\ costumeData.costume = "DWARF"
    /\ Len(Overlays) = 2 /\ Overlays[1].id = "costume-popover"

(* C16: the frame loop neither stops nor multiplies: an invocation of main  *)
(* calls requestAnimationFrame once, as its last statement; at most one     *)
(* callback is pending, and exactly one whenever main has returned; and     *)
(* once init has been called, with invocations running to their end and the *)
(* browser running the requested callbacks, update and render are called    *)
(* again and again.                                                         *)
C16_LoopNeverStopsNorMultiplies ==
    /\ [](/\ rafPending <= 1
          /\ Len(Only(frameLog, {"requestAnimationFrame"})) <= 1
          /\ (InFrame /\ pc = "idle") =>
                 (rafPending = 1 /\ LastOf(frameLog) = "requestAnimationFrame"))
    /\ [][rafPending' > rafPending =>
             (rafPending' = 1 /\ InFrame /\ LastOf(frameLog) = "lastTime = now")]_rafPending
    /\ []<>(pc = "loaded" \/ LastOf(frameLog) = "update")
    /\ []<>(pc = "loaded" \/ LastOf(frameLog) = "render")

\* the third invocation of main has returned and left one callback pending
C16_Witness ==
    FrameDone /\ frames >= 3 /\ pc = "idle" /\ rafPending = 1

(* C17: within a frame lastTime is written once, after render, and the      *)
(* value written is that frame's now; the dt of a frame is its now minus    *)
(* the now of the frame before (the clock read by init for the first        *)
(* frame), so the dts of the frames so far add up to the time between       *)
(* init's reading of the clock and the last frame's now, and no dt is       *)
(* negative, the clock never going back.                                    *)
C17_LastTimeAndDt ==
    /\ [](InFrame =>
            /\ Len(Only(frameLog, {"lastTime = now"})) <= 1
            /\ "now = Date.now()" \in Range(frameLog) =>
                   /\ main_dt >= 0
                   /\ timing.dtSum = now - timing.since
            /\ ("now = Date.now()" \in Range(frameLog) /\ "lastTime = now" \notin Range(frameLog))
                   => main_dt = now - lastTime
            /\ FrameDone =>
                   (lastTime = now /\ Len(Only(frameLog, {"lastTime = now"})) = 1))
    /\ [][(pc = "main: now" /\ pc' = "main: update") =>
             main_dt' = now' - (IF now = Unassigned THEN timing.since ELSE now)]_vars
    /\ [][(InFrame /\ lastTime' # lastTime) =>
             (pc = "main: lastTime" /\ lastTime' = now)]_vars

\* the second frame is over; init read the clock at 100 ms, time has passed
\* between the frames and while the second one ran
C17_Witness ==
    /\ FrameDone /\ frames >= 2
    /\ timing.since = 100 /\ main_dt > 0 /\ timing.dtSum = now - 100
    /\ clock > now /\ lastTime = now

\* an update(dt) of the end-of-game popover is being made
EndOfGameUpdate == PopoverActive /\ _isDisplayingEndOfGamePopover /\ lastCall'.op = "update"

(* C18: an update(dt) of the end-of-game popover that does not restart a    *)
(* particle changes of it only the two fields of the table: particle 1      *)
(* lineWidth + 400 dt and alpha - 4 dt, particle 2 radius + 90 dt and alpha *)
(* - 5 dt, particle 3 radius + 200 dt and lineWidth - 60 dt (dt in seconds);*)
(* center, color and the third field stay.  A shrinking field that lands on *)
(* 0 is no restart, update(0) leaves the particles as they are, and update  *)
(* touches nothing but the particles.                                       *)
C18_UpdateFollowsTable ==
    [][EndOfGameUpdate =>
          LET d == lastCall'.dt
              p1 == fireworks.particle1
              p2 == fireworks.particle2
              p3 == fireworks.particle3
          IN  /\ p1.alpha - 4 * d >= 0 =>
                     fireworks'.particle1 = [p1 EXCEPT !.lineWidth = @ + 400 * d, !.alpha = @ - 4 * d]
              /\ p2.alpha - 5 * d >= 0 =>
                     fireworks'.particle2 = [p2 EXCEPT !.radius = @ + 90 * d, !.alpha = @ - 5 * d]
              /\ p3.lineWidth - 60 * d >= 0 =>
                     fireworks'.particle3 = [p3 EXCEPT !.radius = @ + 200 * d, !.lineWidth = @ - 60 * d]
              /\ d = 0 => fireworks' = fireworks
              /\ ~lastCall'.threw
              /\ UNCHANGED <<ctx, container, costumeData>>]_vars

\* update(0.25) on fresh particles: the alpha of particle 1 has landed on 0
\* and particle 1 has not restarted, particle 2 has restarted
C18_Witness ==
    /\ PopoverActive /\ _isDisplayingEndOfGamePopover
    /\ lastCall = Call("update", 250, FALSE)
    /\ fireworks.particle1.alpha = 0 /\ fireworks.particle1.lineWidth = 100000
    /\ fireworks.particle1.center = [x |-> 0, y |-> 0]
    /\ fireworks.particle2.alpha = 1000 /\ fireworks.particle2.radius = 0

\* the end-of-game canvas of _renderEndOfGamePopover
EndOfGameCanvas == [width |-> 1280, height |-> 700]

(* C19: once the end-of-game popover has been shown, in every state the     *)
(* center of each particle is an integer point of [0, 1280] x [0, 700], the *)
(* canvas of the popover, and its color is one of the three of `colors`     *)
(* (white, orange, green): the initial values are, and a restart draws from *)
(* these sets only.                                                         *)
C19_CenterAndColorInRange ==
    fireworks # Undefined =>
        \A n \in DOMAIN fireworks :
            /\ fireworks[n].center.x \in 0 .. EndOfGameCanvas.width
            /\ fireworks[n].center.y \in 0 .. EndOfGameCanvas.height
            /\ fireworks[n].color \in {"rgba(255, 255, 255, %alpha%)",
                                       "rgba(255, 184, 6, %alpha%)",
                                       "rgba(171, 252, 170, %alpha%)"}
            /\ (PopoverActive /\ _isDisplayingEndOfGamePopover) =>
                   (ctx.width = EndOfGameCanvas.width /\ ctx.height = EndOfGameCanvas.height)

\* restarted particles at the far corner of the canvas, one white and one green,
\* the third still where it was created
C19_Witness ==
    /\ fireworks # Undefined
    /\ lastCall.op = "update"
    /\ fireworks.particle1.center = [x |-> 1280, y |-> 700]
    /\ fireworks.particle1.color = "rgba(255, 255, 255, %alpha%)"
    /\ fireworks.particle2.center = [x |-> 1280, y |-> 700]
    /\ fireworks.particle2.color = "rgba(171, 252, 170, %alpha%)"
    /\ fireworks.particle3.center = [x |-> 0, y |-> 0]

\* the particles that an update(d) of the particles fw restarts
Restarts(fw, d) ==
    {n \in {"particle1"} : fw.particle1.alpha - 4 * d < 0}
        \cup {n \in {"particle2"} : fw.particle2.alpha - 5 * d < 0}
        \cup {n \in {"particle3"} : fw.particle3.lineWidth - 60 * d < 0}

\* the particles fw, each moved on by d without a restart
Advanced(fw, d) ==
    [particle1 |-> [fw.particle1 EXCEPT !.lineWidth = @ + 400 * d, !.alpha = @ - 4 * d],
     particle2 |-> [fw.particle2 EXCEPT !.radius = @ + 90 * d, !.alpha = @ - 5 * d],
     particle3 |-> [fw.particle3 EXCEPT !.radius = @ + 200 * d, !.lineWidth = @ - 60 * d]]

\* an update of the end-of-game popover restarts particle n
Restart(n) == EndOfGameUpdate /\ n \in Restarts(fireworks, lastCall'.dt)

(* C20: the three particles cycle independently: an update that restarts    *)
(* one particle moves every particle that is not due itself on by dt as if  *)
(* nothing had happened; and unless the end-of-game popover goes away again *)
(* and again, with update called again and again with a dt of at least      *)
(* 0.1 s each of the three particles restarts again and again.              *)
C20_ParticlesCycleIndependently ==
    /\ [][EndOfGameUpdate =>
             \A i, j \in {"particle1", "particle2", "particle3"} :
                 (i \in Restarts(fireworks, lastCall'.dt) /\ j \notin Restarts(fireworks, lastCall'.dt))
                     => fireworks'[j] = Advanced(fireworks, lastCall'.dt)[j]]_vars
    /\ \/ []<>(~(PopoverActive /\ _isDisplayingEndOfGamePopover))
       \/ /\ []<><<Restart("particle1")>>_vars
          /\ []<><<Restart("particle2")>>_vars
          /\ []<><<Restart("particle3")>>_vars

\* update(0.1) has restarted particle 2 and has moved particle 1, one step
\* before its own restart, on by 0.1 s
C20_Witness ==
    /\ PopoverActive /\ _isDisplayingEndOfGamePopover
    /\ lastCall = Call("update", 100, FALSE)
    /\ fireworks.particle2.alpha = 1000 /\ fireworks.particle2.radius = 0
    /\ fireworks.particle2.center.x = 1280
    /\ fireworks.particle1.alpha = 200 /\ fireworks.particle1.lineWidth = 80000

(* C21: whatever updates with dt >= 0 have been made, at the end of each    *)
(* the alpha of particles 1 and 2 is within [0, 1], the lineWidth of        *)
(* particle 3 within [0, 20], and no lineWidth and no radius is negative;   *)
(* once particle 3 has restarted, or has shrunk to 15 or less, its          *)
(* lineWidth stays within [0, 15] under every further update.               *)
C21_RenderedQuantitiesInRange ==
    /\ [](fireworks # Undefined =>
            /\ fireworks.particle1.alpha \in 0 .. 1000
            /\ fireworks.particle2.alpha \in 0 .. 1000
            /\ fireworks.particle3.lineWidth \in 0 .. 20000
            /\ \A n \in DOMAIN fireworks :
                   fireworks[n].lineWidth >= 0 /\ fireworks[n].radius >= 0)
    /\ [][EndOfGameUpdate =>
             (("particle3" \in Restarts(fireworks, lastCall'.dt)
                   \/ fireworks.particle3.lineWidth <= 15000)
                 => fireworks'.particle3.lineWidth \in 0 .. 15000)]_vars

\* the second update: particle 3 has restarted at 15, the alpha of particle 2
\* is half used up, particle 1 has restarted from an alpha of exactly 0
C21_Witness ==
    /\ PopoverActive /\ _isDisplayingEndOfGamePopover
    /\ lastCall = Call("update", 100, FALSE)
    /\ fireworks.particle3.lineWidth = 15000 /\ fireworks.particle3.center.y = 700
    /\ fireworks.particle2.alpha = 500 /\ fireworks.particle2.radius = 9000
    /\ fireworks.particle1.alpha = 1000 /\ fireworks.particle1.lineWidth = 0
    /\ fireworks.particle1.center.y = 700

(* C22: after every presentGameFinishPopover call this.fireworks is the     *)
(* same three particles: particle 1 radius 50, lineWidth 0, particle 2      *)
(* radius 0, lineWidth 10, particle 3 radius 0, lineWidth 20, each with     *)
(* alpha 1, center (0, 0) and the orange of the palette, whatever was       *)
(* shown, updated or removed before; and this.fireworks, once set, always   *)
(* has exactly the three particles.                                         *)
C22_FireworksStartAfresh ==
    /\ lastCall.op = "presentGameFinishPopover" =>
          fireworks =
              [particle1 |-> [radius |-> 50000, lineWidth |-> 0, alpha |-> 1000,
                              center |-> [x |-> 0, y |-> 0],
                              color |-> "rgba(255, 184, 6, %alpha%)"],
               particle2 |-> [radius |-> 0, lineWidth |-> 10000, alpha |-> 1000,
                              center |-> [x |-> 0, y |-> 0],
                              color |-> "rgba(255, 184, 6, %alpha%)"],
               particle3 |-> [radius |-> 0, lineWidth |-> 20000, alpha |-> 1000,
                              center |-> [x |-> 0, y |-> 0],
                              color |-> "rgba(255, 184, 6, %alpha%)"]]
    /\ fireworks # Undefined =>
          /\ Fields(fireworks) = {"particle1", "particle2", "particle3"}
          /\ \A n \in Fields(fireworks) :
                 Fields(fireworks[n]) = {"radius", "lineWidth", "alpha", "center", "color"}

\* an end-of-game popover presented over an earlier end-of-game popover
C22_Witness ==
    /\ lastCall.op = "presentGameFinishPopover"
    /\ Len(Overlays) = 2
    /\ Overlays[1].id = "game-end-popover" /\ Overlays[2].id = "game-end-popover"
    /\ fireworks.particle1.center = [x |-> 0, y |-> 0]

====
